---- MODULE Spec2Model ----
(***************************************************************************)
(* A model of src/app3.py: the Flask handlers of the insurance platform    *)
(* (register, login, logout, apply_policy, my_policies, withdraw_policy,    *)
(* make_claim, report_transaction, complaints_feedback) over the tables    *)
(* User, Scheme, Policy, Nominee, Claim and Report, the claim_documents     *)
(* folder, the session cookie and the wall clock.                          *)
(*                                                                         *)
(* Text is a sequence of one-character strings, so that upper(), lower()   *)
(* and strip() are computed character by character. Time is in seconds     *)
(* since the start of day 0; a date is a day number.                       *)
(***************************************************************************)
EXTENDS Integers, Sequences, FiniteSets, TLC

VARIABLES users, schemes, policies, nominees, claims, files, session, now,
          last, inflight, nchanges, reports

vars == <<users, schemes, policies, nominees, claims, files, session, now,
          last, inflight, nchanges, reports>>

(***************************************************************************)
(* Bounds of the model.                                                    *)
(***************************************************************************)
MaxUsers == 2
MaxPolicies == 2
MaxClaims == 1
MaxDocs == 1
TokenLen == 1
NumSchemes == 1
NumSuffixes == 1
NumRequests == 2
MaxReports == 2

(***************************************************************************)
(* Program constants.                                                      *)
(***************************************************************************)
WithdrawWindow == 86400
PolicyTermDays == 365 * 10
SecondsPerDay == 24 * 60 * 60
SecondsPerMinute == 60
MinAge == 18
MaxAge == 100

(***************************************************************************)
(* Text.                                                                   *)
(***************************************************************************)
LowerAlpha == <<"a","b","c","d","e","f","g","h","i","j","k","l","m",
                "n","o","p","q","r","s","t","u","v","w","x","y","z">>
UpperAlpha == <<"A","B","C","D","E","F","G","H","I","J","K","L","M",
                "N","O","P","Q","R","S","T","U","V","W","X","Y","Z">>
Digits == {"0","1","2","3","4","5","6","7","8","9"}

Range(f) == {f[i] : i \in DOMAIN f}

UpperChar(c) ==
    IF \E i \in DOMAIN LowerAlpha : LowerAlpha[i] = c
    THEN UpperAlpha[CHOOSE i \in DOMAIN LowerAlpha : LowerAlpha[i] = c]
    ELSE c

LowerChar(c) ==
    IF \E i \in DOMAIN UpperAlpha : UpperAlpha[i] = c
    THEN LowerAlpha[CHOOSE i \in DOMAIN UpperAlpha : UpperAlpha[i] = c]
    ELSE c

Upper(s) == [i \in 1..Len(s) |-> UpperChar(s[i])]

Lower(s) == [i \in 1..Len(s) |-> LowerChar(s[i])]

\* the characters str.strip() removes, of those the model sends
Whitespace == {" ", "\n"}

RECURSIVE LStrip(_)
LStrip(s) == IF s # <<>> /\ Head(s) \in Whitespace THEN LStrip(Tail(s)) ELSE s

RECURSIVE RStrip(_)
RStrip(s) ==
    IF s # <<>> /\ s[Len(s)] \in Whitespace
    THEN RStrip(SubSeq(s, 1, Len(s) - 1)) ELSE s

Strip(s) == RStrip(LStrip(s))

\* every text of length n over the characters of chars
RECURSIVE TextsOfLen(_, _)
TextsOfLen(chars, n) ==
    IF n = 0 THEN {<<>>}
    ELSE {<<c>> \o t : c \in chars, t \in TextsOfLen(chars, n - 1)}

TextsUpTo(chars, n) == UNION {TextsOfLen(chars, k) : k \in 0..n}

\* request.form / JSON body: a function from the field names present to text
HasField(form, f) == f \in DOMAIN form

FormGet(form, f, default) == IF HasField(form, f) THEN form[f] ELSE default

(***************************************************************************)
(* Clock and calendar. The clock moves through Instants, which lie less    *)
(* than, exactly and more than the withdrawal window apart; the model's    *)
(* day 0 is EpochDate, and the days the clock reaches stay inside its      *)
(* month.                                                                  *)
(***************************************************************************)
Instants == {0, WithdrawWindow - 1, 2 * WithdrawWindow - 1}

EpochDate == [year |-> 2024, month |-> 3, day |-> 15]

\* date.today(): the day number of the clock
DateToday(t) == t \div SecondsPerDay

\* the calendar date of a day number
CalendarDate(d) == [EpochDate EXCEPT !.day = @ + d]

\* strftime('%Y%m%d%H%M'): the clock to the minute
MinuteStamp(t) == t \div SecondsPerMinute

\* strftime('%Y%m%d_%H%M%S_'): the clock to the second
SecondStamp(t) == t

DigitSeq == <<"0","1","2","3","4","5","6","7","8","9">>

DigitVal(c) == (CHOOSE i \in DOMAIN DigitSeq : DigitSeq[i] = c) - 1

AllDigits(s) == \A i \in DOMAIN s : s[i] \in Digits

RECURSIVE Number(_)
Number(s) == IF s = <<>> THEN 0
             ELSE 10 * Number(SubSeq(s, 1, Len(s) - 1)) + DigitVal(s[Len(s)])

IsLeap(y) == (y % 4 = 0 /\ y % 100 # 0) \/ y % 400 = 0

DaysInMonth(y, m) ==
    IF m = 2 THEN (IF IsLeap(y) THEN 29 ELSE 28)
    ELSE IF m \in {4, 6, 9, 11} THEN 30 ELSE 31

NoDate == [year |-> 0, month |-> 0, day |-> 0]

\* datetime.strptime(s, '%Y-%m-%d').date(); NoDate stands for ValueError
ParseDate(s) ==
    IF /\ Len(s) = 10
       /\ s[5] = "-" /\ s[8] = "-"
       /\ AllDigits(SubSeq(s, 1, 4)) /\ AllDigits(SubSeq(s, 6, 7))
       /\ AllDigits(SubSeq(s, 9, 10))
    THEN LET y == Number(SubSeq(s, 1, 4))
             m == Number(SubSeq(s, 6, 7))
             d == Number(SubSeq(s, 9, 10))
         IN IF y >= 1 /\ m \in 1..12 /\ d >= 1 /\ d <= DaysInMonth(y, m)
            THEN [year |-> y, month |-> m, day |-> d]
            ELSE NoDate
    ELSE NoDate

(***************************************************************************)
(* Helper functions of the program.                                        *)
(***************************************************************************)
TokenChars == {"A", "B"}

\* generate_token(): the values str(uuid4())[:8].upper() can take
TokenSpace == TextsOfLen(TokenChars, TokenLen)

Suffixes == 1..NumSuffixes

generate_policy_number(t, suffix) == <<"POL", MinuteStamp(t), suffix>>

generate_claim_number(t, suffix) == <<"CLM", MinuteStamp(t), suffix>>

hash_password(password) == <<"sha256">> \o password

\* mutant: every password is accepted
verify_password_any(password, password_hash) == TRUE

verify_password(password, password_hash) ==
    (<<"sha256">> \o password) = password_hash

\* mutant: the difference of the years, whatever the month and day
calculate_age_by_year(dob, t) == CalendarDate(DateToday(t)).year - dob.year

calculate_age(dob, t) ==
    LET today == CalendarDate(DateToday(t))
        notYet == \/ today.month < dob.month
                  \/ (today.month = dob.month /\ today.day < dob.day)
    IN today.year - dob.year - (IF notYet THEN 1 ELSE 0)

\* re.match(r'^[A-Z]{5}[0-9]{4}[A-Z]{1}$', pan.upper()): the $ of the pattern
\* matches at the end of the text and also before a newline that ends it
validate_pan(pan) ==
    LET u == Upper(pan)
        p == IF Len(u) = 11 /\ u[11] = "\n" THEN SubSeq(u, 1, 10) ELSE u
    IN /\ Len(p) = 10
       /\ \A i \in 1..5 : p[i] \in Range(UpperAlpha)
       /\ \A i \in 6..9 : p[i] \in Digits
       /\ p[10] \in Range(UpperAlpha)

(***************************************************************************)
(* Tables. A table is the sequence of its rows; a row's id is its index.   *)
(***************************************************************************)
NoLogin == -1

SeedSchemes == <<
    [name |-> "Pure Life Term Insurance", premium_amount |-> 750,
     coverage_amount |-> 10000000, is_active |-> TRUE],
    [name |-> "Whole Life Insurance Plan", premium_amount |-> 2000,
     coverage_amount |-> 1500000, is_active |-> TRUE],
    [name |-> "Endowment Life Insurance", premium_amount |-> 3000,
     coverage_amount |-> 2000000, is_active |-> TRUE],
    [name |-> "Child Life Insurance Plan", premium_amount |-> 1500,
     coverage_amount |-> 2500000, is_active |-> TRUE] >>

NoSession == [k \in {} |-> 0]

LoggedIn == "user_id" \in DOMAIN session

Mark(route, path, id) == [route |-> route, path |-> path, id |-> id]

IdleRequest == [pc |-> "idle"]

Idle == [r \in 1..NumRequests |-> IdleRequest]

Init ==
    /\ users = <<>>
    /\ schemes = SubSeq(SeedSchemes, 1, NumSchemes)
    /\ policies = <<>>
    /\ nominees = <<>>
    /\ claims = <<>>
    /\ files = {}
    /\ session = NoSession
    /\ now = 0
    /\ last = Mark("start", "start", 0)
    /\ inflight = Idle
    /\ nchanges = <<>>
    /\ reports = <<>>

(***************************************************************************)
(* The transaction of a request. A handler works on the rows its session   *)
(* has flushed; commit() makes them the stored table, and a request that   *)
(* ends in an exception leaves the stored table as it was (the session is  *)
(* rolled back when the request is torn down).                             *)
(***************************************************************************)
Commit(stored, flushed) == flushed

\* mutant: what was flushed before the exception stays stored
RollbackKeepsFlushed(stored, flushed) == flushed

Rollback(stored, flushed) == stored

(***************************************************************************)
(* register                                                                *)
(***************************************************************************)
RequiredFields == <<"username", "password", "full_name", "email", "phone",
                    "date_of_birth", "gender", "address", "pan_number">>

MissingField(data) ==
    \E i \in DOMAIN RequiredFields :
        FormGet(data, RequiredFields[i], <<>>) = <<>>

NewUser(data, token, t) ==
    [digital_token |-> token,
     username      |-> Strip(data["username"]),
     password_hash |-> hash_password(data["password"]),
     email         |-> Lower(Strip(data["email"])),
     date_of_birth |-> ParseDate(data["date_of_birth"]),
     age           |-> calculate_age(ParseDate(data["date_of_birth"]), t),
     pan_number    |-> Strip(Upper(data["pan_number"])),
     last_login    |-> NoLogin]

\* mutant: digital_token is not a UNIQUE column
UniqueViolationExceptToken(table, u) ==
    \E i \in DOMAIN table :
        \/ table[i].username = u.username
        \/ table[i].email = u.email
        \/ table[i].pan_number = u.pan_number

\* the UNIQUE columns of User
UserUniqueViolation(table, u) ==
    \E i \in DOMAIN table :
        \/ table[i].digital_token = u.digital_token
        \/ table[i].username = u.username
        \/ table[i].email = u.email
        \/ table[i].pan_number = u.pan_number

\* the code path a POST to /register takes
RegisterPath(table, data, token, t) ==
    IF MissingField(data) THEN "missing_field"
    ELSE IF \E i \in DOMAIN table : table[i].username = data["username"]
    THEN "username_exists"
    ELSE IF \E i \in DOMAIN table : table[i].email = data["email"]
    THEN "email_exists"
    ELSE IF \E i \in DOMAIN table :
                table[i].pan_number = Upper(data["pan_number"])
    THEN "pan_exists"
    ELSE IF ~validate_pan(data["pan_number"]) THEN "invalid_pan"
    ELSE IF ParseDate(data["date_of_birth"]) = NoDate THEN "invalid_date"
    ELSE IF calculate_age(ParseDate(data["date_of_birth"]), t) < MinAge
    THEN "under_age"
    ELSE IF calculate_age(ParseDate(data["date_of_birth"]), t) > MaxAge
    THEN "over_age"
    ELSE IF UserUniqueViolation(table, NewUser(data, token, t))
    THEN "integrity_error"
    ELSE "registered"

Text(str) == CASE str = "a"  -> <<"a">>
               [] str = "b"  -> <<"b">>
               [] str = " a" -> <<" ", "a">>
               [] str = "p"  -> <<"p">>
               [] str = "q"  -> <<"q">>
               [] str = "x"  -> <<"x">>
               [] str = "y"  -> <<"y">>
               [] str = "z"  -> <<"z">>
               [] str = "n"  -> <<"n">>
               [] str = "pan1" -> <<"a","b","c","d","e","1","2","3","4","f">>
               [] str = "pan2" -> <<"A","B","C","D","E","5","6","7","8","G">>
               [] str = "pan3" -> <<"A","B","C","D","E","9","9","9","9","H">>
               [] str = "1994-03-15" ->
                      <<"1","9","9","4","-","0","3","-","1","5">>
               [] str = "2010-01-01" ->
                      <<"2","0","1","0","-","0","1","-","0","1">>

Candidate(username, password, email, pan, dob) ==
    [username |-> Text(username), password |-> Text(password),
     full_name |-> Text("n"), email |-> Text(email), phone |-> Text("n"),
     date_of_birth |-> Text(dob), gender |-> Text("n"),
     address |-> Text("n"), pan_number |-> Text(pan)]

\* the bodies posted to /register
Candidates ==
    { Candidate("a", "p", "x", "pan1", "1994-03-15"),
      Candidate("b", "q", "y", "pan2", "1994-03-15"),
      Candidate("b", "q", "y", "pan2", "2010-01-01") }

register(data, token) ==
    /\ Len(users) < MaxUsers
    /\ LET path == RegisterPath(users, data, token, now)
       IN /\ users' = IF path = "registered"
                      THEN Commit(users, Append(users, NewUser(data, token, now)))
                      ELSE Rollback(users, users)
          /\ last' = Mark("register", path, 0)
    /\ UNCHANGED <<reports, schemes, policies, nominees, claims, files, session, now,
                   inflight, nchanges>>

(***************************************************************************)
(* login, logout                                                           *)
(***************************************************************************)
FindUser(table, username) ==
    IF \E i \in DOMAIN table : table[i].username = username
    THEN CHOOSE i \in DOMAIN table :
            /\ table[i].username = username
            /\ \A j \in DOMAIN table : table[j].username = username => i <= j
    ELSE 0

LoginPath(table, data) ==
    LET username == Strip(FormGet(data, "username", <<>>))
        password == FormGet(data, "password", <<>>)
        uid == FindUser(table, username)
    IN IF username = <<>> \/ password = <<>> THEN "credentials_required"
       ELSE IF uid # 0 /\ verify_password(password, table[uid].password_hash)
       THEN "logged_in"
       ELSE "invalid_credentials"

Logins ==
    { [username |-> Text(u), password |-> Text(p)] :
        u \in {" a", "b"}, p \in {"p", "q"} }
    \cup {[username |-> Text("a")]}

\* mutant: an unknown username gets an answer of its own
LoginResponseNamesUnknown(table, data) ==
    IF FindUser(table, Strip(FormGet(data, "username", <<>>))) = 0
    THEN [status |-> 404, success |-> FALSE, message |-> "Unknown username"]
    ELSE [status |-> 401, success |-> FALSE,
          message |-> "Invalid username or password"]

\* the JSON answer and the HTTP status of a POST to /login
LoginResponse(table, data) ==
    CASE LoginPath(table, data) = "credentials_required" ->
            [status |-> 400, success |-> FALSE,
             message |-> "Username and password are required"]
      [] LoginPath(table, data) = "logged_in" ->
            [status |-> 200, success |-> TRUE, redirect |-> "/dashboard"]
      [] LoginPath(table, data) = "invalid_credentials" ->
            [status |-> 401, success |-> FALSE,
             message |-> "Invalid username or password"]

\* what the request leaves in the session and in the User table
LoginResult(table, cookie, data, t) ==
    LET path == LoginPath(table, data)
        uid == FindUser(table, Strip(FormGet(data, "username", <<>>)))
    IN IF path = "logged_in"
       THEN [path |-> path, session |-> [user_id |-> uid],
             users |-> Commit(table, [table EXCEPT ![uid].last_login = t])]
       ELSE [path |-> path, session |-> cookie, users |-> table]

login(data) ==
    /\ LET res == LoginResult(users, session, data, now)
       IN /\ session' = res.session
          /\ users' = res.users
          /\ last' = Mark("login", res.path, 0)
    /\ UNCHANGED <<reports, schemes, policies, nominees, claims, files, now,
                   inflight, nchanges>>

\* mutant: the session survives the logout
logout_keeps_session ==
    /\ last' = Mark("logout", "redirect_home", 0)
    /\ UNCHANGED <<users, schemes, policies, nominees, claims, files, session,
                   now, inflight, nchanges, reports>>

logout ==
    /\ session' = NoSession
    /\ last' = Mark("logout", "redirect_home", 0)
    /\ UNCHANGED <<reports, users, schemes, policies, nominees, claims, files, now,
                   inflight, nchanges>>

(***************************************************************************)
(* The wall clock.                                                         *)
(***************************************************************************)
Tick ==
    /\ \E t \in Instants : t > now /\ now' = t
    /\ UNCHANGED <<reports, users, schemes, policies, nominees, claims, files,
                   session, last, inflight, nchanges>>

(***************************************************************************)
(* The digital-token gate of apply_policy and make_claim.                  *)
(***************************************************************************)
TokenEntered(form) == Upper(FormGet(form, "digital_token", <<>>))

\* mutant: the gate accepts any leading part of the stored token
TokenMatchesPrefix(user, form) ==
    LET entered == TokenEntered(form)
    IN /\ Len(entered) <= Len(user.digital_token)
       /\ SubSeq(user.digital_token, 1, Len(entered)) = entered

\* mutant: the submitted token is trimmed before the comparison
TokenMatchesTrimmed(user, form) ==
    user.digital_token = Strip(TokenEntered(form))

TokenMatches(user, form) == ~(user.digital_token # TokenEntered(form))

SubmitChars == {"a", "B"}

\* the digital_token fields a form may carry
SubmittedTokens ==
    TextsUpTo(SubmitChars, TokenLen) \cup {t \o <<"B">> : t \in TokenSpace}

(***************************************************************************)
(* apply_policy                                                            *)
(***************************************************************************)
\* mutant: a term of one year
NewPolicyOneYear(uid, scheme_id, scheme, t, suffix) ==
    [policy_number   |-> generate_policy_number(t, suffix),
     user_id         |-> uid,
     scheme_id       |-> scheme_id,
     premium_amount  |-> scheme.premium_amount,
     coverage_amount |-> scheme.coverage_amount,
     start_date      |-> DateToday(t),
     end_date        |-> DateToday(t) + 365,
     status          |-> "applied",
     created_at      |-> t]

NewPolicy(uid, scheme_id, scheme, t, suffix) ==
    [policy_number   |-> generate_policy_number(t, suffix),
     user_id         |-> uid,
     scheme_id       |-> scheme_id,
     premium_amount  |-> scheme.premium_amount,
     coverage_amount |-> scheme.coverage_amount,
     start_date      |-> DateToday(t),
     end_date        |-> DateToday(t) + PolicyTermDays,
     status          |-> "applied",
     created_at      |-> t]

NewNominee(uid, policy_id, form) ==
    [user_id      |-> uid,
     policy_id    |-> policy_id,
     name         |-> form["nominee_name"],
     relationship |-> form["nominee_relationship"]]

\* mutant: the status is not looked at
is_withdrawable_any_status(policy, t) ==
    (t - policy.created_at) < WithdrawWindow

\* mutant: the window includes its last instant
is_withdrawable_inclusive(policy, t) ==
    policy.status = "applied" /\ (t - policy.created_at) <= WithdrawWindow

\* is_withdrawable of a Policy row, evaluated at clock t
is_withdrawable(policy, t) ==
    policy.status = "applied" /\ (t - policy.created_at) < WithdrawWindow

\* the code path a POST to /apply-policy/<scheme_id> takes
ApplyPath(scheme_id, form, suffix) ==
    IF ~LoggedIn THEN "login_required"
    ELSE IF scheme_id \notin DOMAIN schemes THEN "not_found"
    ELSE IF ~TokenMatches(users[session["user_id"]], form) THEN "token_failed"
    ELSE IF \E i \in DOMAIN policies :
              policies[i].policy_number = generate_policy_number(now, suffix)
    THEN "integrity_error"
    ELSE IF ~HasField(form, "nominee_name")
            \/ ~HasField(form, "nominee_relationship")
    THEN "bad_request"
    ELSE "applied"

Nominees == { [nominee_name |-> "Jane Doe", nominee_relationship |-> "spouse"],
              [nominee_name |-> "Jane Doe"],
              [nominee_relationship |-> "spouse"] }

ApplyForms ==
    Nominees \cup
    { [f \in DOMAIN n \cup {"digital_token"} |->
          IF f = "digital_token" THEN tok ELSE n[f]] :
        n \in Nominees, tok \in SubmittedTokens }

\* what the request leaves stored, and the code path it took
ApplyResult(scheme_id, form, suffix) ==
    LET path == ApplyPath(scheme_id, form, suffix)
    IN IF path \in {"applied", "bad_request"}
       THEN LET uid == session["user_id"]
                new_policy == NewPolicy(uid, scheme_id, schemes[scheme_id],
                                        now, suffix)
                flushed == Append(policies, new_policy)
            IN IF path = "applied"
               THEN [path     |-> path,
                     policies |-> Commit(policies, flushed),
                     nominees |-> Commit(nominees,
                                    Append(nominees,
                                           NewNominee(uid, Len(flushed), form)))]
               ELSE [path     |-> path,
                     policies |-> Rollback(policies, flushed),
                     nominees |-> Rollback(nominees, nominees)]
       ELSE [path |-> path, policies |-> policies, nominees |-> nominees]

apply_policy(scheme_id, form, suffix) ==
    LET res == ApplyResult(scheme_id, form, suffix)
    IN /\ res.path = "applied" => Len(policies) < MaxPolicies
       /\ policies' = res.policies
       /\ nominees' = res.nominees
       /\ nchanges' = [i \in DOMAIN res.policies |->
                         IF i \in DOMAIN nchanges THEN nchanges[i] ELSE 0]
       /\ last' = Mark("apply_policy", res.path, 0)
       /\ UNCHANGED <<reports, users, schemes, claims, files, session, now, inflight>>

(***************************************************************************)
(* withdraw_policy                                                         *)
(***************************************************************************)
\* mutant: the owner is not checked
MayWithdrawAnyUser(row, uid, t) == is_withdrawable(row, t)

\* line 2001, on the row the request loaded
MayWithdraw(row, uid, t) == row.user_id = uid /\ is_withdrawable(row, t)

\* mutant: the handler writes another status
SetActive(table, policy_id) ==
    [table EXCEPT ![policy_id].status = "active"]

\* mutant: the withdrawal also ends the term of the policy today
SetWithdrawnAndEnded(table, policy_id) ==
    [table EXCEPT ![policy_id].status = "withdrawn",
                  ![policy_id].end_date = table[policy_id].start_date]

\* lines 2002-2003: UPDATE policy SET status = 'withdrawn' WHERE id = policy_id
SetWithdrawn(table, policy_id) ==
    [table EXCEPT ![policy_id].status = "withdrawn"]

\* mutant: a policy that cannot be withdrawn is answered like a missing one
WithdrawPathStrict(table, policy_id) ==
    IF ~LoggedIn THEN "login_required"
    ELSE IF policy_id \notin DOMAIN table THEN "not_found"
    ELSE IF MayWithdraw(table[policy_id], session["user_id"], now)
    THEN "withdrawn"
    ELSE "not_found"

\* the code path a POST to /withdraw-policy/<policy_id> takes on a table
WithdrawPath(table, policy_id) ==
    IF ~LoggedIn THEN "login_required"
    ELSE IF policy_id \notin DOMAIN table THEN "not_found"
    ELSE IF MayWithdraw(table[policy_id], session["user_id"], now)
    THEN "withdrawn"
    ELSE "not_withdrawn"

\* what the request leaves stored, and the code path it took
WithdrawResult(table, policy_id) ==
    LET path == WithdrawPath(table, policy_id)
    IN [path     |-> path,
        policies |-> IF path = "withdrawn"
                     THEN Commit(table, SetWithdrawn(table, policy_id))
                     ELSE table]

withdraw_policy(policy_id) ==
    LET res == WithdrawResult(policies, policy_id)
    IN /\ policies' = res.policies
       /\ nchanges' = IF res.path = "withdrawn"
                      THEN [nchanges EXCEPT ![policy_id] = @ + 1]
                      ELSE nchanges
       /\ last' = Mark("withdraw_policy", res.path, policy_id)
       /\ UNCHANGED <<reports, users, schemes, nominees, claims, files, session, now,
                      inflight>>

(***************************************************************************)
(* my_policies                                                             *)
(***************************************************************************)
\* mutant: the query has no filter_by(user_id=...)
OwnedByAnyone(table, uid) == [i \in 1..Len(table) |-> i]

\* filter_by(user_id=session['user_id']): the ids of the user's rows
OwnedBy(table, uid) ==
    SelectSeq([i \in 1..Len(table) |-> i], LAMBDA i : table[i].user_id = uid)

\* one row put in its place of a listing that is newest first
RECURSIVE InsertNewestFirst(_, _, _)
InsertNewestFirst(table, listed, id) ==
    IF listed = <<>> THEN <<id>>
    ELSE IF table[id].created_at > table[Head(listed)].created_at
    THEN <<id>> \o listed
    ELSE <<Head(listed)>> \o InsertNewestFirst(table, Tail(listed), id)

\* order_by(Policy.created_at.desc()) of the rows named by ids
RECURSIVE OrderByCreatedDesc(_, _)
OrderByCreatedDesc(table, ids) ==
    IF ids = <<>> THEN <<>>
    ELSE InsertNewestFirst(table,
                           OrderByCreatedDesc(table, SubSeq(ids, 1, Len(ids) - 1)),
                           ids[Len(ids)])

\* the rows the page lists, and the code path of a GET of /my-policies
MyPoliciesResult ==
    IF ~LoggedIn THEN [path |-> "login_required", rows |-> <<>>]
    ELSE [path |-> "listed",
          rows |-> OrderByCreatedDesc(policies,
                                      OwnedBy(policies, session["user_id"]))]

my_policies ==
    /\ last' = Mark("my_policies", MyPoliciesResult.path, MyPoliciesResult.rows)
    /\ UNCHANGED <<users, schemes, policies, nominees, claims, files, session,
                   now, inflight, nchanges, reports>>

(***************************************************************************)
(* make_claim                                                              *)
(***************************************************************************)
\* werkzeug's secure_filename on the file names the model uploads
secure_filename(name) ==
    CASE name = "my doc.pdf" -> "my_doc.pdf"
      [] OTHER -> name

DocPath(name, t) == <<"claim_documents", SecondStamp(t), secure_filename(name)>>

NoNumber == -1000000

\* float(text); NoNumber stands for ValueError
ParseFloat(text) ==
    IF text # <<>> /\ AllDigits(text) THEN Number(text)
    ELSE IF Len(text) > 1 /\ Head(text) = "-" /\ AllDigits(Tail(text))
    THEN 0 - Number(Tail(text))
    ELSE NoNumber

\* the uploads the loop of lines 2042-2049 takes up: those with a file name
Named(docs) == {i \in DOMAIN docs : docs[i] # ""}

\* the index of the upload whose save() raises (0: none does)
FailsAt(docs, fail) == IF fail \in Named(docs) THEN fail ELSE 0

\* mutant: no upload reaches the folder
SavedNone(docs, fail) == {}

Saved(docs, fail) ==
    IF FailsAt(docs, fail) = 0 THEN Named(docs)
    ELSE {i \in Named(docs) : i < FailsAt(docs, fail)}

RECURSIVE DocPaths(_, _)
DocPaths(docs, t) ==
    IF docs = <<>> THEN <<>>
    ELSE IF Head(docs) = "" THEN DocPaths(Tail(docs), t)
    ELSE <<DocPath(Head(docs), t)>> \o DocPaths(Tail(docs), t)

NewClaim(uid, form, docs, t, suffix) ==
    [claim_number   |-> generate_claim_number(t, suffix),
     user_id        |-> uid,
     policy_id      |-> form["policy_id"],
     claim_amount   |-> ParseFloat(form["claim_amount"]),
     document_paths |-> DocPaths(docs, t),
     status         |-> "submitted",
     submitted_at   |-> t]

\* mutant: the uploads are stored before the token is checked
ClaimStoresFilesFirst(form) == LoggedIn

\* whether the request gets as far as storing uploads
ClaimStoresFiles(form) ==
    LoggedIn /\ TokenMatches(users[session["user_id"]], form)

\* the code path a POST to /make-claim takes
ClaimPath(form, docs, fail, suffix) ==
    IF ~LoggedIn THEN "login_required"
    ELSE IF ~TokenMatches(users[session["user_id"]], form) THEN "token_failed"
    ELSE IF FailsAt(docs, fail) # 0 THEN "storage_error"
    ELSE IF ~HasField(form, "policy_id") \/ ~HasField(form, "claim_amount")
    THEN "bad_request"
    ELSE IF ParseFloat(form["claim_amount"]) = NoNumber THEN "value_error"
    ELSE IF \E i \in DOMAIN claims :
              claims[i].claim_number = generate_claim_number(now, suffix)
    THEN "integrity_error"
    ELSE "claimed"

ClaimFields ==
    { [policy_id |-> pid, claim_amount |-> amt] :
        pid \in {"1"},
        amt \in {<<"1","0","0">>, <<"-","5">>, <<"x">>} }
    \cup {[policy_id |-> "2", claim_amount |-> <<"1","0","0">>],
          [policy_id |-> "1"], [claim_amount |-> <<"1","0","0">>]}

ClaimForms ==
    ClaimFields \cup
    { [f \in DOMAIN c \cup {"digital_token"} |->
          IF f = "digital_token" THEN tok ELSE c[f]] :
        c \in ClaimFields, tok \in SubmittedTokens }

Uploads == UNION { [1..k -> {"", "my doc.pdf"}] : k \in 0..MaxDocs }

\* what the request leaves stored and on disk, and the code path it took
ClaimResult(form, docs, fail, suffix) ==
    LET path == ClaimPath(form, docs, fail, suffix)
    IN [path   |-> path,
        files  |-> IF ClaimStoresFiles(form)
                   THEN files \cup {DocPath(docs[i], now) : i \in Saved(docs, fail)}
                   ELSE files,
        claims |-> IF path = "claimed"
                   THEN Commit(claims,
                               Append(claims, NewClaim(session["user_id"], form,
                                                       docs, now, suffix)))
                   ELSE Rollback(claims, claims)]

\* len(doc_paths), the number the success page reports
doc_count(docs) == Cardinality(Named(docs))

make_claim(form, docs, fail, suffix) ==
    LET res == ClaimResult(form, docs, fail, suffix)
    IN /\ res.path = "claimed" => Len(claims) < MaxClaims
       /\ files' = res.files
       /\ claims' = res.claims
       /\ last' = Mark("make_claim", res.path, 0)
       /\ UNCHANGED <<reports, users, schemes, policies, nominees, session, now,
                      inflight, nchanges>>

(***************************************************************************)
(* report_transaction, complaints_feedback. A request is two steps: the    *)
(* INSERT, whose created_at is the clock read by the column's default, and *)
(* the rendering of the answer page, whose reference id is formatted from  *)
(* the clock read again by inject_user_and_now. The clock may move between *)
(* the two reads.                                                          *)
(***************************************************************************)
\* mutant: a report is stored as already handled
NewReportResolved(uid, report_type, form, t) ==
    [user_id     |-> uid,
     report_type |-> report_type,
     description |-> form["description"],
     status      |-> "resolved",
     created_at  |-> t]

NewReport(uid, report_type, form, t) ==
    [user_id     |-> uid,
     report_type |-> report_type,
     description |-> form["description"],
     status      |-> "submitted",
     created_at  |-> t]

\* the code path a POST to /report-transaction or /complaints-feedback takes
ReportPath(form) ==
    IF ~LoggedIn THEN "login_required"
    ELSE IF ~HasField(form, "description") THEN "bad_request"
    ELSE "submitted"

\* 'REP' or 'FB' followed by now.strftime('%Y%m%d%H%M')
ReferenceId(prefix, t) == <<prefix, MinuteStamp(t)>>

ReportForms ==
    { [description |-> <<"x">>], [description |-> <<>>], [k \in {} |-> <<>>] }

\* what the request leaves stored, and the code path it took
ReportResult(report_type, form) ==
    LET path == ReportPath(form)
    IN IF path = "submitted"
       THEN [path    |-> path,
             reports |-> Commit(reports,
                                Append(reports,
                                       NewReport(session["user_id"],
                                                 report_type, form, now)))]
       ELSE [path |-> path, reports |-> Rollback(reports, reports)]

\* lines 2413-2424 and 2490-2501: the request up to its commit
SubmitReport(r, route, report_type, prefix, form) ==
    LET res == ReportResult(report_type, form)
    IN /\ inflight[r].pc = "idle"
       /\ res.path = "submitted" => Len(reports) < MaxReports
       /\ reports' = res.reports
       /\ IF res.path = "submitted"
          THEN /\ inflight' = [inflight EXCEPT ![r] =
                     [pc |-> "rendering", route |-> route, prefix |-> prefix]]
               /\ UNCHANGED last
          ELSE /\ last' = Mark(route, res.path, <<>>)
               /\ UNCHANGED inflight
       /\ UNCHANGED <<users, schemes, policies, nominees, claims, files,
                      session, now, nchanges>>

report_transaction(r, form) ==
    SubmitReport(r, "report_transaction", "unauthorized_transaction", "REP",
                 form)

complaints_feedback(r, form) ==
    SubmitReport(r, "complaints_feedback", "complaint_feedback", "FB", form)

\* the answer page of a stored report, with its Reference ID
render_report(r) ==
    /\ inflight[r].pc = "rendering"
    /\ last' = Mark(inflight[r].route, "submitted",
                    ReferenceId(inflight[r].prefix, now))
    /\ inflight' = [inflight EXCEPT ![r] = IdleRequest]
    /\ UNCHANGED <<users, schemes, policies, nominees, claims, files, session,
                   now, nchanges, reports>>

(***************************************************************************)
(* The program, one request at a time. Spec runs the identity store and   *)
(* the policy lifecycle; SpecClaim runs the identity store and the claim   *)
(* workflow, whose handler reads and writes no Policy or Nominee row, with *)
(* all its requests inside one second of the clock (the case in which the  *)
(* timestamped names it generates coincide).                               *)
(***************************************************************************)
Next ==
    \/ \E data \in Candidates, token \in TokenSpace : register(data, token)
    \/ \E data \in Logins : login(data)
    \/ logout
    \/ \E scheme_id \in 1..(NumSchemes + 1), form \in ApplyForms,
          suffix \in Suffixes : apply_policy(scheme_id, form, suffix)
    \/ \E policy_id \in 1..(MaxPolicies + 1) : withdraw_policy(policy_id)
    \/ Tick

Spec == Init /\ [][Next]_vars

NextClaim ==
    \/ \E data \in Candidates, token \in TokenSpace : register(data, token)
    \/ \E data \in Logins : login(data)
    \/ logout
    \/ \E form \in ClaimForms, docs \in Uploads :
          \E fail \in {0} \cup DOMAIN docs, suffix \in Suffixes :
             make_claim(form, docs, fail, suffix)

SpecClaim == Init /\ [][NextClaim]_vars

(***************************************************************************)
(* withdraw_policy as two steps of a request, for requests served at the   *)
(* same time: the SELECT of line 2000 loads the row into the request's     *)
(* session; lines 2001-2003 decide on the loaded row and UPDATE the stored *)
(* one. Nothing locks the row between the two.                             *)
(***************************************************************************)
withdraw_load(r, policy_id) ==
    /\ inflight[r].pc = "idle"
    /\ LET path == WithdrawPath(policies, policy_id)
       IN IF path \in {"login_required", "not_found"}
          THEN /\ last' = Mark("withdraw_policy", path, policy_id)
               /\ UNCHANGED inflight
          ELSE /\ inflight' = [inflight EXCEPT ![r] =
                     [pc        |-> "loaded",
                      policy_id |-> policy_id,
                      user_id   |-> session["user_id"],
                      row       |-> policies[policy_id]]]
               /\ UNCHANGED last
    /\ UNCHANGED <<reports, users, schemes, policies, nominees, claims, files, session,
                   now, nchanges>>

withdraw_finish(r) ==
    /\ inflight[r].pc = "loaded"
    /\ LET req == inflight[r]
       IN IF MayWithdraw(req.row, req.user_id, now)
          THEN /\ policies' = Commit(policies,
                                     SetWithdrawn(policies, req.policy_id))
               /\ nchanges' = [nchanges EXCEPT ![req.policy_id] = @ + 1]
               /\ last' = Mark("withdraw_policy", "withdrawn", req.policy_id)
          ELSE /\ UNCHANGED <<policies, nchanges>>
               /\ last' = Mark("withdraw_policy", "not_withdrawn",
                               req.policy_id)
    /\ inflight' = [inflight EXCEPT ![r] = IdleRequest]
    /\ UNCHANGED <<reports, users, schemes, nominees, claims, files, session, now>>

\* Requests served concurrently, inside one second of the clock.
NextConc ==
    \/ \E data \in Candidates, token \in TokenSpace : register(data, token)
    \/ \E data \in Logins : login(data)
    \/ \E scheme_id \in 1..(NumSchemes + 1), form \in ApplyForms,
          suffix \in Suffixes : apply_policy(scheme_id, form, suffix)
    \/ \E r \in 1..NumRequests, policy_id \in 1..(MaxPolicies + 1) :
          withdraw_load(r, policy_id)
    \/ \E r \in 1..NumRequests : withdraw_finish(r)

SpecConc == Init /\ [][NextConc]_vars

(***************************************************************************)
(* apply_policy as two steps of a request, for requests served at the same *)
(* time: lines 1700-1738 check the session, the scheme and the token and   *)
(* build the Policy with a number made from the clock and a random suffix; *)
(* lines 1739-1750 INSERT it, add the Nominee and commit. The database     *)
(* serialises the writers and applies the UNIQUE index of policy_number to *)
(* every INSERT.                                                           *)
(***************************************************************************)
\* mutant: policy_number has no UNIQUE index
PolicyNumberFree(table, row) == FALSE

\* the UNIQUE index of Policy.policy_number
PolicyUniqueViolation(table, row) ==
    \E i \in DOMAIN table : table[i].policy_number = row.policy_number

apply_prepare(r, scheme_id, form, suffix) ==
    /\ inflight[r].pc = "idle"
    /\ LET path == IF ~LoggedIn THEN "login_required"
                   ELSE IF scheme_id \notin DOMAIN schemes THEN "not_found"
                   ELSE IF ~TokenMatches(users[session["user_id"]], form)
                   THEN "token_failed"
                   ELSE "prepared"
       IN IF path = "prepared"
          THEN /\ inflight' = [inflight EXCEPT ![r] =
                     [pc     |-> "flushing",
                      form   |-> form,
                      policy |-> NewPolicy(session["user_id"], scheme_id,
                                           schemes[scheme_id], now, suffix)]]
               /\ UNCHANGED last
          ELSE /\ last' = Mark("apply_policy", path, 0)
               /\ UNCHANGED inflight
    /\ UNCHANGED <<users, schemes, policies, nominees, claims, files, session,
                   now, nchanges, reports>>

apply_store(r) ==
    /\ inflight[r].pc = "flushing"
    /\ LET req == inflight[r]
           row == [req.policy EXCEPT !.created_at = now]
           path == IF PolicyUniqueViolation(policies, row)
                   THEN "integrity_error"
                   ELSE IF ~HasField(req.form, "nominee_name")
                           \/ ~HasField(req.form, "nominee_relationship")
                   THEN "bad_request"
                   ELSE "applied"
           flushed == Append(policies, row)
       IN /\ path = "applied" => Len(policies) < MaxPolicies
          /\ IF path = "applied"
             THEN /\ policies' = Commit(policies, flushed)
                  /\ nominees' = Commit(nominees,
                                        Append(nominees,
                                               NewNominee(row.user_id,
                                                          Len(flushed),
                                                          req.form)))
                  /\ nchanges' = [i \in DOMAIN flushed |->
                                    IF i \in DOMAIN nchanges THEN nchanges[i]
                                    ELSE 0]
             ELSE /\ policies' = Rollback(policies, flushed)
                  /\ UNCHANGED <<nominees, nchanges>>
          /\ last' = Mark("apply_policy", path, 0)
    /\ inflight' = [inflight EXCEPT ![r] = IdleRequest]
    /\ UNCHANGED <<users, schemes, claims, files, session, now, reports>>

\* Applications served concurrently, inside one minute of the clock.
NextApply ==
    \/ \E data \in Candidates, token \in TokenSpace : register(data, token)
    \/ \E data \in Logins : login(data)
    \/ \E r \in 1..NumRequests, scheme_id \in 1..(NumSchemes + 1),
          form \in ApplyForms, suffix \in 1..(NumSuffixes + 1) :
             apply_prepare(r, scheme_id, form, suffix)
    \/ \E r \in 1..NumRequests : apply_store(r)

SpecApply == Init /\ [][NextApply]_vars

(***************************************************************************)
(* The catalog as its operator may leave it: is_active is a column of      *)
(* Scheme that schemes() filters on (line 1661) and that no handler sets,  *)
(* so a stored scheme can carry either flag.                               *)
(***************************************************************************)
InitCatalog ==
    /\ users = <<>>
    /\ schemes \in { [i \in 1..NumSchemes |->
                        [SeedSchemes[i] EXCEPT !.is_active = flags[i]]] :
                     flags \in [1..NumSchemes -> BOOLEAN] }
    /\ policies = <<>>
    /\ nominees = <<>>
    /\ claims = <<>>
    /\ files = {}
    /\ session = NoSession
    /\ now = 0
    /\ last = Mark("start", "start", 0)
    /\ inflight = Idle
    /\ nchanges = <<>>
    /\ reports = <<>>

SpecCatalog == InitCatalog /\ [][Next]_vars

(***************************************************************************)
(* The policy lifecycle and the claim workflow together, inside one second *)
(* of the clock: the claims a user files while policies are stored.        *)
(***************************************************************************)
NextFile ==
    \/ \E data \in Candidates, token \in TokenSpace : register(data, token)
    \/ \E data \in Logins : login(data)
    \/ \E scheme_id \in 1..(NumSchemes + 1), form \in ApplyForms,
          suffix \in Suffixes : apply_policy(scheme_id, form, suffix)
    \/ \E policy_id \in 1..(MaxPolicies + 1) : withdraw_policy(policy_id)
    \/ \E form \in ClaimForms, docs \in Uploads :
          \E fail \in {0} \cup DOMAIN docs, suffix \in Suffixes :
             make_claim(form, docs, fail, suffix)

SpecFile == Init /\ [][NextFile]_vars

(***************************************************************************)
(* The identity store on its own, with registration bodies whose fields    *)
(* differ from a stored user's only by surrounding blanks or letter case,  *)
(* and dates of birth on either side of the age limits.                    *)
(***************************************************************************)
\* the text of n in decimal, width digits wide
RECURSIVE Decimal(_, _)
Decimal(n, width) ==
    IF width = 0 THEN <<>>
    ELSE Decimal(n \div 10, width - 1) \o <<DigitSeq[(n % 10) + 1]>>

\* a date as the registration form sends it: YYYY-MM-DD
IsoDate(year, month, day) ==
    Decimal(year, 4) \o <<"-">> \o Decimal(month, 2) \o <<"-">> \o Decimal(day, 2)

Body(username, password, email, pan, dob) ==
    [username |-> username, password |-> password,
     full_name |-> <<"n">>, email |-> email, phone |-> <<"n">>,
     date_of_birth |-> dob, gender |-> <<"n">>,
     address |-> <<"n">>, pan_number |-> pan]

RegisterBodies ==
    { Body(<<"a">>, <<"p">>, <<"x">>, Text("pan1"), IsoDate(1994, 3, 15)),
      Body(<<" ", "a">>, <<"p">>, <<"z">>, Text("pan3"), IsoDate(1994, 3, 15)),
      Body(<<"b">>, <<"q">>, <<"X">>, Text("pan2"), IsoDate(1994, 3, 15)),
      Body(<<"b">>, <<"q">>, <<"y">>, Text("pan1") \o <<"\n">>,
           IsoDate(1994, 3, 15)),
      Body(<<"b">>, <<"q">>, <<"y">>, Text("pan2"), IsoDate(2006, 3, 16)),
      Body(<<"b">>, <<"q">>, <<"y">>, Text("pan2"), IsoDate(1923, 3, 16)) }

NextRegister ==
    \/ \E data \in RegisterBodies, token \in TokenSpace : register(data, token)
    \/ \E data \in Logins : login(data)
    \/ logout
    \/ Tick

SpecRegister == Init /\ [][NextRegister]_vars

(***************************************************************************)
(* The policy lifecycle with the page that lists a user's policies.        *)
(***************************************************************************)
NextList ==
    \/ \E data \in Candidates, token \in TokenSpace : register(data, token)
    \/ \E data \in Logins : login(data)
    \/ \E scheme_id \in 1..(NumSchemes + 1), form \in ApplyForms,
          suffix \in Suffixes : apply_policy(scheme_id, form, suffix)
    \/ \E policy_id \in 1..(MaxPolicies + 1) : withdraw_policy(policy_id)
    \/ my_policies
    \/ Tick

SpecList == Init /\ [][NextList]_vars

(***************************************************************************)
(* The identity store and the report log.                                  *)
(***************************************************************************)
NextReport ==
    \/ \E data \in Candidates, token \in TokenSpace : register(data, token)
    \/ \E data \in Logins : login(data)
    \/ logout
    \/ \E form \in ReportForms : report_transaction(1, form)
    \/ \E form \in ReportForms : complaints_feedback(1, form)
    \/ render_report(1)
    \/ Tick

SpecReport == Init /\ [][NextReport]_vars

(***************************************************************************)
(* Registration followed by login with the username and password as they   *)
(* were submitted: a plain username, one with blanks around it, and one    *)
(* made of a blank only.                                                   *)
(***************************************************************************)
RoundTripBodies ==
    { Body(<<"a">>, <<"p">>, <<"x">>, Text("pan1"), IsoDate(1994, 3, 15)),
      Body(<<" ", "b", " ">>, <<"q">>, <<"y">>, Text("pan2"),
           IsoDate(1994, 3, 15)),
      Body(<<" ">>, <<"p">>, <<"z">>, Text("pan3"), IsoDate(1994, 3, 15)) }

RoundTripLogins ==
    { [username |-> data["username"], password |-> password] :
        data \in RoundTripBodies, password \in {<<"p">>, <<"q">>} }

NextRoundTrip ==
    \/ \E data \in RoundTripBodies, token \in TokenSpace : register(data, token)
    \/ \E data \in RoundTripLogins : login(data)
    \/ logout
    \/ Tick

SpecRoundTrip == Init /\ [][NextRoundTrip]_vars

(***************************************************************************)
(* Properties. A request's inputs are not part of the state, so a property *)
(* of a handler is stated on what the handler would leave, for every input *)
(* in every reachable state; the witnesses are states a request has left.  *)
(***************************************************************************)
SchemeIds == 1..(NumSchemes + 1)

PolicyIds == 1..(MaxPolicies + 1)

\* the stored digital token of the session's user differs from the
\* submitted one after upper-casing
WrongToken(form) ==
    /\ LoggedIn
    /\ users[session["user_id"]].digital_token
          # Upper(FormGet(form, "digital_token", <<>>))

\* C1: an apply with a token that does not match the user's digital token
\* (compared after upper-casing the submitted value) ends in the
\* token-mismatch page and leaves the Policy and Nominee tables as they were.
C1_WrongTokenCreatesNothing ==
    \A scheme_id \in SchemeIds, form \in ApplyForms, suffix \in Suffixes :
        WrongToken(form)
        => LET res == ApplyResult(scheme_id, form, suffix)
           IN /\ res.policies = policies
              /\ res.nominees = nominees
              /\ scheme_id \in DOMAIN schemes => res.path = "token_failed"

C1_Witness ==
    /\ last = Mark("apply_policy", "token_failed", 0)
    /\ Len(policies) = 1
    /\ Len(nominees) = 1

C3_PolicyAndNomineeTogether ==
    /\ \A p \in DOMAIN policies :
          Cardinality({n \in DOMAIN nominees : nominees[n].policy_id = p}) = 1
    /\ \A n \in DOMAIN nominees :
          /\ nominees[n].policy_id \in DOMAIN policies
          /\ policies[nominees[n].policy_id].user_id = nominees[n].user_id

C3_Witness ==
    /\ last = Mark("apply_policy", "bad_request", 0)
    /\ Len(policies) = 1
    /\ Len(nominees) = 1

\* C4: apply creates a Policy only for a scheme that exists and whose active
\* flag is true, so every stored Policy references such a scheme.
C4_PolicyOnlyForActiveScheme ==
    \A p \in DOMAIN policies :
        /\ policies[p].scheme_id \in DOMAIN schemes
        /\ schemes[policies[p].scheme_id].is_active

Owner(p) == LoggedIn /\ policies[p].user_id = session["user_id"]

\* C5: for a Policy created at T and a query at T', is_withdrawable is true
\* exactly when the status is applied and T' - T < 86400 seconds: false from
\* exactly 86400 seconds on whatever the status, false for withdrawn and
\* active whatever the time; it is a function of the row and the clock.
C5_WithdrawableIffAppliedWithinDay ==
    \A p \in DOMAIN policies, st \in {"applied", "withdrawn", "active"},
       t \in Instants \cup {now} :
        LET row == [policies[p] EXCEPT !.status = st]
        IN t >= row.created_at
           => /\ is_withdrawable(row, t)
                    <=> (st = "applied" /\ t - row.created_at < 86400)
              /\ t - row.created_at >= 86400 => ~is_withdrawable(row, t)
              /\ st # "applied" => ~is_withdrawable(row, t)

C5_Witness ==
    \E p \in DOMAIN policies :
        /\ last = Mark("withdraw_policy", "not_withdrawn", p)
        /\ Owner(p)
        /\ policies[p].status = "applied"
        /\ now - policies[p].created_at = 86400

\* C6: withdraw sets a policy's status to withdrawn if and only if the
\* session's user owns it, its status is applied and less than 86400 seconds
\* have passed since its creation; any other call leaves every policy as it
\* was.
C6_WithdrawOnlyByOwnerInWindow ==
    \A policy_id \in PolicyIds :
        LoggedIn
        => LET res == WithdrawResult(policies, policy_id)
           IN IF /\ policy_id \in DOMAIN policies
                 /\ policies[policy_id].user_id = session["user_id"]
                 /\ policies[policy_id].status = "applied"
                 /\ now - policies[policy_id].created_at < 86400
              THEN res.policies =
                      [policies EXCEPT ![policy_id].status = "withdrawn"]
              ELSE res.policies = policies

C6_Witness ==
    \E p \in DOMAIN policies :
        /\ last = Mark("withdraw_policy", "not_withdrawn", p)
        /\ LoggedIn
        /\ policies[p].user_id # session["user_id"]
        /\ policies[p].status = "applied"
        /\ now - policies[p].created_at < 86400

\* C7: of two withdraw calls by the owner on the same policy inside the
\* window, the first moves the status from applied to withdrawn, and the
\* second ends in the same redirect without an error and leaves the table
\* as the first left it.
C7_SecondWithdrawIsNoOp ==
    \A p \in DOMAIN policies :
        (/\ Owner(p)
         /\ policies[p].status = "applied"
         /\ now - policies[p].created_at < 86400)
        => LET first == WithdrawResult(policies, p)
               second == WithdrawResult(first.policies, p)
           IN /\ first.path = "withdrawn"
              /\ first.policies[p].status = "withdrawn"
              /\ second.path = "not_withdrawn"
              /\ second.policies = first.policies

C7_Witness ==
    \E p \in DOMAIN policies :
        /\ last = Mark("withdraw_policy", "not_withdrawn", p)
        /\ Owner(p)
        /\ policies[p].status = "withdrawn"
        /\ nchanges[p] = 1
        /\ now - policies[p].created_at < 86400

\* C8: the only change ever made to a policy's status is applied ->
\* withdrawn: no step moves a policy to active, deletes it, or changes a
\* withdrawn or active status, and an applied policy stays applied when its
\* window has passed.
C8_OnlyAppliedToWithdrawn ==
    [][\A p \in DOMAIN policies :
          /\ p \in DOMAIN policies'
          /\ policies'[p].status # policies[p].status
             => /\ policies[p].status = "applied"
                /\ policies'[p].status = "withdrawn"]_vars

C8_Witness ==
    /\ \E p \in DOMAIN policies :
          /\ policies[p].status = "applied"
          /\ now - policies[p].created_at >= 86400
    /\ \E p \in DOMAIN policies : policies[p].status = "withdrawn"

\* C9: of two withdraw requests for the same applied policy served at the
\* same time, at most one performs the change applied -> withdrawn.
C9_AtMostOneWithdrawal ==
    \A p \in DOMAIN nchanges : nchanges[p] <= 1

\* C10: a file_claim with a token that does not match the user's digital
\* token (after upper-casing the submitted value) ends in the token-mismatch
\* page, creates no Claim and writes no uploaded document.
C10_WrongTokenClaimsNothing ==
    \A form \in ClaimForms, docs \in Uploads :
        \A fail \in {0} \cup DOMAIN docs, suffix \in Suffixes :
            WrongToken(form)
            => LET res == ClaimResult(form, docs, fail, suffix)
               IN /\ res.path = "token_failed"
                  /\ res.claims = claims
                  /\ res.files = files

C10_Witness ==
    /\ last = Mark("make_claim", "token_failed", 0)
    /\ LoggedIn
    /\ Len(claims) = 1
    /\ files # {}

\* the Policy row a Claim's policy_id column names: the column is an Integer,
\* so the form's text is stored as the number it spells
PolicyRef(text) == CASE text = "1" -> 1
                     [] text = "2" -> 2
                     [] OTHER -> 0

\* C11: a file_claim with the correct token against a policy of the user
\* whose status is not active (applied, or withdrawn) ends in a
\* policy-not-eligible outcome and creates no Claim.
C11_NonActivePolicyClaimsNothing ==
    \A form \in ClaimForms, docs \in Uploads :
        \A fail \in {0} \cup DOMAIN docs, suffix \in Suffixes :
            (/\ ClaimStoresFiles(form)
             /\ HasField(form, "policy_id")
             /\ PolicyRef(form["policy_id"]) \in DOMAIN policies
             /\ policies[PolicyRef(form["policy_id"])].status # "active")
            => LET res == ClaimResult(form, docs, fail, suffix)
               IN /\ res.path # "claimed"
                  /\ res.claims = claims

\* C12: every stored Claim names an existing Policy, and that Policy belongs
\* to the user the Claim belongs to.
C12_ClaimNamesOwnPolicy ==
    \A c \in DOMAIN claims :
        /\ PolicyRef(claims[c].policy_id) \in DOMAIN policies
        /\ policies[PolicyRef(claims[c].policy_id)].user_id = claims[c].user_id

\* C13: every stored Claim has a claim_amount greater than 0: a file_claim
\* with an amount of zero or less creates no Claim.
C13_ClaimAmountPositive ==
    \A c \in DOMAIN claims : claims[c].claim_amount > 0

\* C14: every document path listed in a stored Claim names a file that is in
\* the folder; a file_claim in which the save of an upload fails ends in an
\* error and creates no Claim; and on success the document count reported
\* equals the number of paths stored in the new Claim.
C14_DocumentsStoredBeforeClaim ==
    /\ \A c \in DOMAIN claims :
          \A i \in DOMAIN claims[c].document_paths :
             claims[c].document_paths[i] \in files
    /\ \A form \in ClaimForms, docs \in Uploads :
          \A fail \in {0} \cup DOMAIN docs, suffix \in Suffixes :
             LET res == ClaimResult(form, docs, fail, suffix)
             IN /\ (ClaimStoresFiles(form) /\ fail # 0 /\ docs[fail] # "")
                   => /\ res.path = "storage_error"
                      /\ res.claims = claims
                /\ res.path = "claimed"
                   => /\ \A i \in DOMAIN res.claims[Len(res.claims)].document_paths :
                            res.claims[Len(res.claims)].document_paths[i]
                               \in res.files
                      /\ doc_count(docs)
                            = Len(res.claims[Len(res.claims)].document_paths)

C14_Witness ==
    /\ last = Mark("make_claim", "claimed", 0)
    /\ Len(claims) = 1
    /\ Len(claims[1].document_paths) = 1
    /\ claims[1].document_paths[1] \in files

\* C15: no two stored users share a username, an email, a PAN number or a
\* digital token, also after a register whose generated token equals a
\* stored user's; the token of a successful register differs from the token
\* of every user stored at that moment.
C15_UsersUnique ==
    /\ \A i, j \in DOMAIN users :
          i # j => /\ users[i].username # users[j].username
                   /\ users[i].email # users[j].email
                   /\ users[i].pan_number # users[j].pan_number
                   /\ users[i].digital_token # users[j].digital_token
    /\ \A data \in RegisterBodies, token \in TokenSpace :
          RegisterPath(users, data, token, now) = "registered"
          => \A i \in DOMAIN users : users[i].digital_token # token

\* a register was refused at the INSERT while the only stored user shares
\* no username, email or PAN number with any body that passes the three
\* look-ups: the generated token was the stored user's
C15_Witness ==
    /\ last = Mark("register", "integrity_error", 0)
    /\ Len(users) = 1
    /\ users[1].username = <<"b">>
    /\ users[1].email = <<"y">>
    /\ users[1].pan_number = Text("pan2")

\* C16: a register whose username, email or PAN number equals a stored
\* user's in the form in which it is stored (username trimmed, email trimmed
\* and lower-cased, PAN number upper-cased and trimmed) ends in the conflict
\* outcome of a duplicated field.
C16_DuplicateIsConflict ==
    \A data \in RegisterBodies, token \in TokenSpace :
        LET dupUsername == \E i \in DOMAIN users :
                users[i].username = Strip(data["username"])
            dupEmail == \E i \in DOMAIN users :
                users[i].email = Lower(Strip(data["email"]))
            dupPan == \E i \in DOMAIN users :
                users[i].pan_number = Strip(Upper(data["pan_number"]))
            path == RegisterPath(users, data, token, now)
        IN (dupUsername \/ dupEmail \/ dupPan)
           => \/ dupUsername /\ path = "username_exists"
              \/ dupEmail /\ path = "email_exists"
              \/ dupPan /\ path = "pan_exists"

\* C17: the age of a register is the years from the date of birth to today,
\* less one when this year's birthday is still to come; a body that reaches
\* the age check with an age below 18 or above 100 ends in a validation
\* outcome and no body with such an age is stored; a stored user's age is
\* the one computed at registration, lies in 18..100, and no step changes
\* it.
C17_AgeWithinLimits ==
    /\ [](/\ \A i \in DOMAIN users : users[i].age >= 18 /\ users[i].age <= 100
          /\ \A data \in RegisterBodies, token \in TokenSpace :
                LET dob == ParseDate(data["date_of_birth"])
                    today == CalendarDate(now \div 86400)
                    age == today.year - dob.year
                             - (IF today.month * 100 + today.day
                                      < dob.month * 100 + dob.day
                                THEN 1 ELSE 0)
                    path == RegisterPath(users, data, token, now)
                IN /\ (age < 18 \/ age > 100) => path # "registered"
                   /\ path \in {"under_age", "over_age", "integrity_error",
                                 "registered"}
                      => /\ age < 18 <=> path = "under_age"
                         /\ age > 100 <=> path = "over_age"
                   /\ path = "registered"
                      => NewUser(data, token, now).age = age)
    /\ [][\A i \in DOMAIN users : users'[i].age = users[i].age]_vars

C17_Witness ==
    /\ last = Mark("register", "under_age", 0)
    /\ Len(users) = 1
    /\ users[1].age = 30
    /\ now = 0

\* the user a login body names, and whether its password is that user's
KnownUser(data) ==
    \E i \in DOMAIN users : users[i].username = Strip(data["username"])

\* C18: for a non-empty username and password, the answer of login for a
\* username no user has is the same (status and message) as its answer for
\* a stored username with a password that is not that user's.
C18_SameAnswerUnknownOrWrong ==
    \A unknown \in Logins, wrong \in Logins :
        (/\ LoginPath(users, unknown) # "credentials_required"
         /\ LoginPath(users, wrong) # "credentials_required"
         /\ ~KnownUser(unknown)
         /\ KnownUser(wrong)
         /\ LoginPath(users, wrong) # "logged_in")
        => LoginResponse(users, unknown) = LoginResponse(users, wrong)

C18_Witness ==
    /\ last = Mark("login", "invalid_credentials", 0)
    /\ Len(users) = 1
    /\ session = NoSession

GateTokens == TextsUpTo(TokenChars \cup {"a", "b", " "}, TokenLen + 1)

\* C20: the gate of apply and file_claim lets a request through exactly when
\* the submitted token, letter case aside, is the user's stored token: a
\* missing, empty, padded, shorter or longer token is refused; a request the
\* gate refuses leaves every table as it was.
C20_GateIsCaseInsensitiveEquality ==
    /\ \A u \in DOMAIN users :
          /\ ~TokenMatches(users[u], [nominee_name |-> "Jane Doe"])
          /\ \A tok \in GateTokens :
                TokenMatches(users[u], [digital_token |-> tok])
                <=> /\ tok # <<>>
                    /\ Lower(tok) = Lower(users[u].digital_token)
    /\ LoggedIn
       => LET stored == users[session["user_id"]].digital_token
              same(form) == /\ HasField(form, "digital_token")
                            /\ Lower(form["digital_token"]) = Lower(stored)
          IN /\ \A form \in ApplyForms, suffix \in Suffixes :
                   LET res == ApplyResult(1, form, suffix)
                   IN /\ res.path = "token_failed" <=> ~same(form)
                      /\ res.path = "token_failed"
                         => res.policies = policies /\ res.nominees = nominees
             /\ \A form \in ClaimForms, suffix \in Suffixes :
                   LET res == ClaimResult(form, <<>>, 0, suffix)
                   IN /\ res.path = "token_failed" <=> ~same(form)
                      /\ res.path = "token_failed"
                         => res.claims = claims /\ res.files = files

C20_Witness ==
    /\ last = Mark("apply_policy", "applied", 0)
    /\ LoggedIn
    /\ users[session["user_id"]].digital_token = <<"B">>
    /\ Len(policies) = 1

\* C21: the listing of a logged-in user's policies holds exactly the ids of
\* the policies that user owns, of every status, each once and none of
\* another user, from the newest creation timestamp to the oldest; the
\* request changes no table, no file and not the session.
C21_ListIsOwnPoliciesNewestFirst ==
    /\ [](LoggedIn
          => LET rows == MyPoliciesResult.rows
                 own == {p \in DOMAIN policies :
                            policies[p].user_id = session["user_id"]}
             IN /\ {rows[i] : i \in DOMAIN rows} = own
                /\ Len(rows) = Cardinality(own)
                /\ \A i, j \in DOMAIN rows :
                      i < j => policies[rows[i]].created_at
                                  >= policies[rows[j]].created_at)
    /\ [][last'.route = "my_policies"
            => UNCHANGED <<users, schemes, policies, nominees, claims, files,
                           reports, session>>]_vars

C21_Witness ==
    /\ last = Mark("my_policies", "listed", <<2, 1>>)
    /\ policies[2].created_at > policies[1].created_at
    /\ policies[1].status = "withdrawn"
    /\ policies[2].status = "applied"

\* C22: every stored Report has a type of {unauthorized_transaction,
\* complaint_feedback} and a description that is not empty: a submission
\* with an empty description creates no Report.
C22_ReportHasTypeAndDescription ==
    \A r \in DOMAIN reports :
        /\ reports[r].report_type
              \in {"unauthorized_transaction", "complaint_feedback"}
        /\ reports[r].description # <<>>

\* C23: the reference id shown after a submission is REP (for
\* unauthorized_transaction) or FB (for complaint_feedback) followed by the
\* minute of the creation timestamp stored in the Report just created.
C23_ReferenceIdIsCreationMinute ==
    (last.path = "submitted"
     /\ last.route \in {"report_transaction", "complaints_feedback"})
    => LET row == reports[Len(reports)]
       IN /\ row.report_type = "unauthorized_transaction"
             => last.id = <<"REP", row.created_at \div 60>>
          /\ row.report_type = "complaint_feedback"
             => last.id = <<"FB", row.created_at \div 60>>

\* C24: a submission that succeeds appends exactly one Report, with status
\* submitted and owned by the session's user; every other step leaves the
\* Report table as it is, so no stored Report is ever deleted or changed.
C24_ReportsAppendOnly ==
    /\ [](\A r \in DOMAIN reports : reports[r].status = "submitted")
    /\ [][\/ reports' = reports
          \/ /\ LoggedIn
             /\ Len(reports') = Len(reports) + 1
             /\ SubSeq(reports', 1, Len(reports)) = reports
             /\ reports'[Len(reports')].status = "submitted"
             /\ reports'[Len(reports')].user_id = session["user_id"]]_vars

C24_Witness ==
    /\ Len(reports) = 2
    /\ reports[1].user_id # reports[2].user_id
    /\ reports[1].report_type = "unauthorized_transaction"
    /\ reports[2].report_type = "complaint_feedback"
    /\ last = Mark("login", "logged_in", 0)

\* C25: under every interleaving of two applications served at the same
\* time, also when both made the same policy number, no two stored Policies
\* have the same policy number.
C25_PolicyNumbersUnique ==
    \A p, q \in DOMAIN policies :
        p # q => policies[p].policy_number # policies[q].policy_number

\* a request whose Policy carries the number of a stored Policy was refused
\* at its INSERT
C25_Witness ==
    /\ last = Mark("apply_policy", "integrity_error", 0)
    /\ Len(policies) = 1
    /\ \A r \in DOMAIN inflight : inflight[r].pc = "idle"

\* C26: no step changes the owner, scheme, policy number, premium, coverage,
\* start date, end date or creation timestamp of a stored Policy, or removes
\* it; a withdraw changes the status of at most the policy it targets and
\* leaves every other Policy and every Nominee, Claim, Report and User as
\* they were.
C26_WithdrawChangesOnlyStatus ==
    [][/\ \A p \in DOMAIN policies :
             /\ p \in DOMAIN policies'
             /\ [policies'[p] EXCEPT !.status = policies[p].status]
                   = policies[p]
       /\ last'.route = "withdraw_policy"
          => /\ \A p \in DOMAIN policies :
                   policies'[p] # policies[p] => p = last'.id
             /\ DOMAIN policies' = DOMAIN policies
             /\ UNCHANGED <<nominees, claims, reports, users, files>>]_vars

C26_Witness ==
    /\ last = Mark("withdraw_policy", "withdrawn", 1)
    /\ Len(policies) = 2
    /\ policies[1].status = "withdrawn"
    /\ policies[2].status = "applied"
    /\ policies[1].premium_amount = 750
    /\ policies[1].coverage_amount = 10000000

\* C27: after a logout no user is bound to the session; without a bound
\* user apply, withdraw, file_claim, the policy list and both report
\* submissions end in the redirect to the login page and leave every table
\* and the document folder as they were; with a bound user, every Policy,
\* Nominee, Claim and Report a request creates carries that user's id.
C27_SessionUserActs ==
    /\ [][last'.route = "logout" => "user_id" \notin DOMAIN session']_vars
    /\ [](~LoggedIn
          => /\ \A scheme_id \in SchemeIds, form \in ApplyForms,
                   suffix \in Suffixes :
                   ApplyResult(scheme_id, form, suffix)
                      = [path |-> "login_required", policies |-> policies,
                         nominees |-> nominees]
             /\ \A policy_id \in PolicyIds :
                   LET res == WithdrawResult(policies, policy_id)
                   IN res.path = "login_required" /\ res.policies = policies
             /\ \A form \in ClaimForms, docs \in Uploads :
                   \A fail \in {0} \cup DOMAIN docs, suffix \in Suffixes :
                      ClaimResult(form, docs, fail, suffix)
                         = [path |-> "login_required", files |-> files,
                            claims |-> claims]
             /\ MyPoliciesResult = [path |-> "login_required", rows |-> <<>>]
             /\ \A form \in ReportForms,
                   type \in {"unauthorized_transaction", "complaint_feedback"} :
                   ReportResult(type, form)
                      = [path |-> "login_required", reports |-> reports])
    /\ [](LoggedIn
          => LET uid == session["user_id"]
             IN /\ \A scheme_id \in SchemeIds, form \in ApplyForms,
                      suffix \in Suffixes :
                      LET res == ApplyResult(scheme_id, form, suffix)
                      IN res.path = "applied"
                         => /\ res.policies[Len(res.policies)].user_id = uid
                            /\ res.nominees[Len(res.nominees)].user_id = uid
                /\ \A form \in ClaimForms, docs \in Uploads, suffix \in Suffixes :
                      LET res == ClaimResult(form, docs, 0, suffix)
                      IN res.path = "claimed"
                         => res.claims[Len(res.claims)].user_id = uid
                /\ \A form \in ReportForms,
                      type \in {"unauthorized_transaction", "complaint_feedback"} :
                      LET res == ReportResult(type, form)
                      IN res.path = "submitted"
                         => res.reports[Len(res.reports)].user_id = uid)

C27_Witness ==
    /\ last = Mark("withdraw_policy", "login_required", 1)
    /\ session = NoSession
    /\ Len(policies) = 1
    /\ policies[1].status = "applied"

\* C28: a file_claim that fails after the token check (the save of an
\* upload fails, the amount is not a number, or a field is missing) creates
\* no Claim and leaves in the folder none of the documents of that request.
C28_FailedClaimLeavesNothing ==
    \A form \in ClaimForms, docs \in Uploads :
        \A fail \in {0} \cup DOMAIN docs, suffix \in Suffixes :
            LET res == ClaimResult(form, docs, fail, suffix)
            IN res.path \in {"storage_error", "bad_request", "value_error"}
               => /\ res.claims = claims
                  /\ res.files = files

\* C29: with a clock that does not go back, a policy whose is_withdrawable
\* is false keeps it false after every step; a policy's status is changed
\* by a withdraw at most once, and only while less than 86400 seconds have
\* passed since its creation, whenever the request was offered.
C29_WithdrawableNeverReturns ==
    /\ [][\A p \in DOMAIN policies :
             ~is_withdrawable(policies[p], now)
             => /\ p \in DOMAIN policies'
                /\ ~is_withdrawable(policies'[p], now')]_vars
    /\ [][\A p \in DOMAIN policies :
             (policies'[p].status = "withdrawn"
              /\ policies[p].status # "withdrawn")
             => now - policies[p].created_at < 86400]_vars
    /\ [](\A p \in DOMAIN policies : nchanges[p] <= 1)

C29_Witness ==
    \E p \in DOMAIN policies :
        /\ last = Mark("withdraw_policy", "not_withdrawn", p)
        /\ Owner(p)
        /\ policies[p].status = "applied"
        /\ now - policies[p].created_at > 86400

\* C30: for a stored user and the body (username u, password p) whose
\* register stored it, a login with u and p as submitted succeeds and binds
\* the session to that user, a login with u and a password of another hash
\* fails, and the stored credential is the hash of p and not p.
C30_RegisterThenLogin ==
    \A i \in DOMAIN users, data \in RoundTripBodies :
        (/\ users[i].username = Strip(data["username"])
         /\ users[i].email = Lower(Strip(data["email"])))
        => LET try(password) ==
                   LoginResult(users, session,
                               [username |-> data["username"],
                                password |-> password], now)
           IN /\ try(data["password"]).path = "logged_in"
              /\ try(data["password"]).session = [user_id |-> i]
              /\ \A password \in {<<"p">>, <<"q">>} :
                    hash_password(password) # hash_password(data["password"])
                    => try(password).path = "invalid_credentials"
              /\ users[i].password_hash = hash_password(data["password"])
              /\ users[i].password_hash # data["password"]

====
